---- MODULE Spec2Model ----
(***************************************************************************)
(* Model of src/dify_knowledge_pipline/fire_drop.py: the DifyFireDrop      *)
(* client (dataset resolver, document locator, document reconciler, bulk   *)
(* delete) talking to the remote knowledge-base service.                   *)
(*                                                                         *)
(* The remote service is the environment: a list of datasets and a list of *)
(* documents, both listed newest first, with server-assigned identifiers.  *)
(* Every HTTP request of the client is one step; a request is answered     *)
(* with success, with an error status, or fails in transport.              *)
(***************************************************************************)
EXTENDS Integers, Sequences, FiniteSets, TLC

VARIABLES
    datasets,    \* remote: sequence of [id, name], listing order
    documents,   \* remote: sequence of [id, dataset, name, text, archived]
    nextId,      \* remote: next server-assigned identifier
    faults,      \* number of requests answered with a failure so far
    calls,       \* per client: number of calls started so far
    cl,          \* per client: the frame of the call in progress
    last         \* per client: summary of the previous finished call

vars == <<datasets, documents, nextId, faults, calls, cl, last>>

-----------------------------------------------------------------------------
(* Bounds *)

MaxRemote == 4       \* datasets plus documents in the initial remote state
MaxCalls == 2        \* times a client makes its call in succession
MaxFaults == 1       \* failed requests in one behaviour
MaxSegments == 2     \* segments of an indexing job
MaxProgress == 3     \* highest count the progress bar is followed to

(* The source asks for pages of 100 (fire_drop.py:112 and :141). The model *)
(* scales the page size down so that "more entries than one page" fits the *)
(* bounds above; nothing else depends on the value.                        *)
DatasetPageLimit == 2
DocumentPageLimit == 2

Clients == {1, 2}
DbNames == {"catalog", "mart"}   \* names of the remote datasets
CallDbNames == {"catalog"}       \* db_name arguments of the calls
TableNames == {"a", "ab"}
Texts == {"t1"}
OldText == "t0"

Suffix == ".txt"

-----------------------------------------------------------------------------
(* Sequence helpers *)

RECURSIVE SelectSeqBy(_, _)
\* the subsequence of s whose elements' ids are in the set keep
SelectSeqBy(s, keep) ==
    IF s = <<>> THEN <<>>
    ELSE IF Head(s).id \in keep
         THEN <<Head(s)>> \o SelectSeqBy(Tail(s), keep)
         ELSE SelectSeqBy(Tail(s), keep)

FirstN(s, n) == IF Len(s) <= n THEN s ELSE SubSeq(s, 1, n)

Range(s) == {s[i] : i \in 1..Len(s)}

\* keyword is a substring of name
Contains(name, keyword) ==
    \/ keyword = ""
    \/ \E i \in 1..(Len(name) - Len(keyword) + 1) :
        SubSeq(name, i, i + Len(keyword) - 1) = keyword

-----------------------------------------------------------------------------
(* The remote service *)

\* GET /datasets?limit=100 : first page of the datasets
ListDatasetsPage == FirstN(datasets, DatasetPageLimit)

\* POST /datasets {name} : a new dataset with a fresh identifier
ServerCreateDataset(name) == <<[id |-> nextId, name |-> name]>> \o datasets

\* documents of one dataset, in listing order
DocsOf(dataset_id) ==
    SelectSeqBy(documents, {d.id : d \in {x \in Range(documents) : x.dataset = dataset_id}})

\* GET /datasets/{id}/documents?keyword=&limit=100 ; keyword "" is no filter
ListDocumentsPage(dataset_id, keyword) ==
    LET all == DocsOf(dataset_id)
        hit == {d.id : d \in {x \in Range(all) : Contains(x.name, keyword)}}
    IN  FirstN(SelectSeqBy(all, hit), DocumentPageLimit)

\* the name the service stores for a document created or updated by text
StoredName(payload_name) == payload_name \o Suffix

\* POST /datasets/{id}/document/create_by_text
ServerCreateDocument(dataset_id, payload) ==
    <<[id |-> nextId, dataset |-> dataset_id, name |-> StoredName(payload.name),
       text |-> payload.text, archived |-> FALSE]>> \o documents

\* does update_by_text on this document succeed: it exists and is not archived
ServerCanUpdate(dataset_id, document_id) ==
    \E d \in Range(documents) :
        d.id = document_id /\ d.dataset = dataset_id /\ ~d.archived

\* POST /datasets/{id}/documents/{doc}/update_by_text : replaces name and body
ServerUpdateDocument(dataset_id, document_id, payload) ==
    [i \in 1..Len(documents) |->
        IF documents[i].id = document_id /\ documents[i].dataset = dataset_id
        THEN [documents[i] EXCEPT !.name = StoredName(payload.name),
                                  !.text = payload.text]
        ELSE documents[i]]

ServerHasDocument(dataset_id, document_id) ==
    \E d \in Range(documents) : d.id = document_id /\ d.dataset = dataset_id

\* DELETE /datasets/{id}/documents/{doc}
ServerDeleteDocument(dataset_id, document_id) ==
    SelectSeqBy(documents,
        {d.id : d \in {x \in Range(documents) :
                          ~(x.id = document_id /\ x.dataset = dataset_id)}})

-----------------------------------------------------------------------------
(* The client: values *)

NoId == 0

\* the None that _update_document_by_text returns after a rejected update
NoneResponse == [document |-> NoId, batch |-> NoId]

\* UploadDocumentResponse(**res.json())
UploadDocumentResponse(document_id) == [document |-> document_id, batch |-> document_id]

Entries == [table_name : TableNames, knowledge_card : Texts]

\* a dict: insertion-ordered, keys distinct
Mappings ==
    {m \in UNION {[1..n -> Entries] : n \in 0..Cardinality(TableNames)} :
        \A i, j \in 1..Len(m) : i # j => m[i].table_name # m[j].table_name}

NoOp == [kind |-> "none", db_name |-> "", table_to_knowledge |-> <<>>,
         force_override |-> FALSE]

Ops ==
    [kind : {"embed_knowledge"}, db_name : CallDbNames,
     table_to_knowledge : Mappings, force_override : BOOLEAN]
    \cup
    [kind : {"delete_all_document", "_hook_knowledge_dataset"}, db_name : CallDbNames,
     table_to_knowledge : {<<>>}, force_override : {FALSE}]

Remote == [datasets |-> datasets, documents |-> documents]

-----------------------------------------------------------------------------
(* Construction of a client *)

None == "<None>"      \* Python's None, for an argument that is str | None
Unset == "<unset>"    \* the environment variable is not set

DefaultSeparator == "\n\n------------\n\n"
DefaultBaseUrl == "http://192.168.1.180/v1"

Separators == {None, "", "##", "\n\n"}
BaseUrls == {DefaultBaseUrl, "https://dify.example/v1"}
ApiKeys == {None, "", "k1", "k2"}
EnvValues == {Unset, "", "k1", "e1"}

\* Python's truth value of a str | None
Truthy(x) == x # None /\ x # ""

\* os.getenv(name, default): the default only when the variable is not set
Getenv(env, default) == IF env = Unset THEN default ELSE env

\* a process that has not constructed its client yet
NewClient ==
    [pc |-> "new", separator |-> None, dify_base_url |-> DefaultBaseUrl,
     api_key |-> None, env |-> Unset,
     my_separator |-> None, headers |-> None, base_url |-> None]

\* DifyFireDrop.__init__
DifyFireDrop(separator, dify_base_url, api_key, env) ==
    LET args == [NewClient EXCEPT !.separator = separator,
                                  !.dify_base_url = dify_base_url,
                                  !.api_key = api_key, !.env = env]
        my_separator == IF Truthy(separator) THEN separator ELSE DefaultSeparator
        key == Getenv(env, api_key)
    IN  IF ~Truthy(key)
        THEN [args EXCEPT !.pc = "exited", !.my_separator = my_separator]
        ELSE [args EXCEPT !.pc = "constructed", !.my_separator = my_separator,
                          !.headers = "Bearer " \o key,
                          !.base_url = dify_base_url]

\* the client the calls below are made on
DefaultClient == DifyFireDrop(None, DefaultBaseUrl, "k1", Unset)

\* the locals of _sync_indexing_status before its first poll: the batch, the
\* status read last, the statuses read before it, and the progress bar
NoMonitor ==
    [batch |-> NoId, status |-> "none", seen |-> {}, total |-> 1, n |-> 0]

IdleFrame ==
    [pc |-> "idle", op |-> NoOp, dataset_id |-> NoId, document_id |-> NoId,
     idx |-> 1, docs |-> <<>>, response_seq |-> <<>>, reqs |-> <<>>,
     exc |-> "none", ret |-> NoId,
     pre |-> [datasets |-> <<>>, documents |-> <<>>],
     init |-> DefaultClient,
     mon |-> NoMonitor,
     overlap |-> FALSE]

NoCall == [op |-> NoOp, pc |-> "none", exc |-> "none", ret |-> NoId,
           dataset_id |-> NoId, reqs |-> <<>>, response_seq |-> <<>>,
           pre |-> [datasets |-> <<>>, documents |-> <<>>],
           post |-> [datasets |-> <<>>, documents |-> <<>>]]

Request(method, target, id, status) ==
    [method |-> method, target |-> target, id |-> id, status |-> status]

\* the frame after a request was issued and an exception left the call
Raise(f, req, e) ==
    [f EXCEPT !.pc = "raised", !.exc = e, !.reqs = Append(f.reqs, req)]

-----------------------------------------------------------------------------
(* Initial state *)

InitDatasets ==
    UNION {{[i \in 1..n |-> [id |-> n + 1 - i, name |-> nm[i]]] :
                nm \in [1..n -> DbNames]} : n \in 0..MaxRemote}

InitDocuments(ds) ==
    LET n0 == Len(ds)
        shapes == [dataset : {d.id : d \in Range(ds)},
                   name : {StoredName(t) : t \in TableNames},
                   archived : BOOLEAN]
    IN  UNION {{[i \in 1..n |->
                    [id |-> n0 + n + 1 - i, dataset |-> sh[i].dataset,
                     name |-> sh[i].name, text |-> OldText,
                     archived |-> sh[i].archived]] :
                 sh \in [1..n -> shapes]} : n \in 0..(MaxRemote - n0)}

Init ==
    /\ datasets \in InitDatasets
    /\ documents \in InitDocuments(datasets)
    /\ nextId = Len(datasets) + Len(documents) + 1
    /\ faults = 0
    /\ calls = [c \in Clients |-> 0]
    /\ cl = [c \in Clients |-> IdleFrame]
    /\ last = [c \in Clients |-> NoCall]

-----------------------------------------------------------------------------
(* The client: pure parts *)

\* variant: the text is left at its default
DocumentPreprocessPayload_NoText(name, text) ==
    [name |-> name, text |-> "", indexing_technique |-> "high_quality",
     mode |-> "custom", remove_extra_spaces |-> FALSE,
     remove_urls_emails |-> FALSE, max_tokens |-> 1000]

\* _document_preprocess_payload: the body of a create or update request
DocumentPreprocessPayload(name, text) ==
    [name |-> name, text |-> text, indexing_technique |-> "high_quality",
     mode |-> "custom", remove_extra_spaces |-> FALSE,
     remove_urls_emails |-> FALSE, max_tokens |-> 1000]

RECURSIVE FirstWithName(_, _)
\* the id of the first element of a listing whose name is the given one
FirstWithName(listing, name) ==
    IF listing = <<>> THEN NoId
    ELSE IF Head(listing).name = name THEN Head(listing).id
         ELSE FirstWithName(Tail(listing), name)

\* the scan of _hook_knowledge_dataset over the listed datasets
FindDataset(listing, db_name) == FirstWithName(listing, db_name)

\* variant: the scan looks for the logical name itself
FindDocument_NoSuffix(listing, table_name) == FirstWithName(listing, table_name)

\* the scan of _sync_document_id over the listed documents
FindDocument(listing, table_name) == FirstWithName(listing, table_name \o Suffix)

\* where a call goes once the dataset is resolved
AfterHook(f, dataset_id) ==
    CASE f.op.kind = "embed_knowledge" ->
            [f EXCEPT !.dataset_id = dataset_id,
                      !.pc = IF f.op.table_to_knowledge = <<>> THEN "done" ELSE "sync"]
      [] f.op.kind = "delete_all_document" ->
            [f EXCEPT !.dataset_id = dataset_id, !.pc = "list"]
      [] OTHER ->
            [f EXCEPT !.dataset_id = dataset_id, !.ret = dataset_id, !.pc = "done"]

\* response_seq.append(response) and the next turn of the loop
NextEntry(f, response) ==
    [f EXCEPT !.response_seq = Append(f.response_seq, response),
              !.document_id = NoId,
              !.idx = f.idx + 1,
              !.pc = IF f.idx + 1 > Len(f.op.table_to_knowledge)
                     THEN "done" ELSE "sync"]

\* variant: a located document is deleted whatever force_override says
WriteBranch_AlwaysDelete(document_id, force_override) ==
    IF document_id # NoId THEN "delete" ELSE "create"

\* variant: force_override goes straight to the create
WriteBranch_NoDelete(document_id, force_override) ==
    IF document_id # NoId
    THEN IF force_override THEN "create" ELSE "update"
    ELSE "create"

\* the branch embed_knowledge takes for a located or absent document
WriteBranch(document_id, force_override) ==
    IF document_id # NoId
    THEN IF force_override THEN "delete" ELSE "update"
    ELSE "create"

\* variant: the empty mapping is not turned away
Enter_NoGuard(op) == "hook_list"

\* variant: the dataset is created before it is looked up
Enter_CreateFirst(op) ==
    IF op.kind = "embed_knowledge" /\ op.table_to_knowledge = <<>>
    THEN "done"
    ELSE "hook_create"

\* the first step of a call
Enter(op) ==
    IF op.kind = "embed_knowledge" /\ op.table_to_knowledge = <<>>
    THEN "done"
    ELSE "hook_list"

CanFault == faults < MaxFaults

-----------------------------------------------------------------------------
(* The client: steps, one per request *)

\* the caller makes a call with any arguments
Call(c) ==
    /\ cl[c].pc = "idle"
    /\ calls[c] = 0
    /\ \E op \in Ops :
          cl' = [cl EXCEPT ![c] =
                    [IdleFrame EXCEPT !.op = op, !.pc = Enter(op), !.pre = Remote]]
    /\ calls' = [calls EXCEPT ![c] = 1]
    /\ UNCHANGED <<datasets, documents, nextId, faults, last>>

\* the caller makes the same call once more, after a normal return
CallAgain(c) ==
    /\ cl[c].pc = "idle"
    /\ last[c].pc = "done"
    /\ calls[c] \in 1..(MaxCalls - 1)
    /\ cl' = [cl EXCEPT ![c] =
                 [IdleFrame EXCEPT !.op = last[c].op, !.pc = Enter(last[c].op),
                                   !.pre = Remote]]
    /\ calls' = [calls EXCEPT ![c] = calls[c] + 1]
    /\ UNCHANGED <<datasets, documents, nextId, faults, last>>

Return(c) ==
    /\ cl[c].pc \in {"done", "raised"}
    /\ last' = [last EXCEPT ![c] =
                  [op |-> cl[c].op, pc |-> cl[c].pc, exc |-> cl[c].exc,
                   ret |-> cl[c].ret, dataset_id |-> cl[c].dataset_id,
                   reqs |-> cl[c].reqs, response_seq |-> cl[c].response_seq,
                   pre |-> cl[c].pre, post |-> Remote]]
    /\ cl' = [cl EXCEPT ![c] = IdleFrame]
    /\ UNCHANGED <<datasets, documents, nextId, faults, calls>>

\* _hook_knowledge_dataset, lines 112-118: list and scan
HookList(c) ==
    LET f == cl[c] IN
    /\ f.pc = "hook_list"
    /\ \/ /\ LET dataset_id == FindDataset(ListDatasetsPage, f.op.db_name)
                 g == [f EXCEPT !.reqs = Append(f.reqs,
                                   Request("GET", "datasets", NoId, "ok"))]
             IN  cl' = [cl EXCEPT ![c] =
                          IF dataset_id # NoId THEN AfterHook(g, dataset_id)
                          ELSE [g EXCEPT !.pc = "hook_create"]]
          /\ UNCHANGED faults
       \/ /\ CanFault
          /\ faults' = faults + 1
          /\ \/ cl' = [cl EXCEPT ![c] =
                   Raise(f, Request("GET", "datasets", NoId, "error"), "KeyError")]
             \/ cl' = [cl EXCEPT ![c] =
                   Raise(f, Request("GET", "datasets", NoId, "transport"), "TransportError")]
    /\ UNCHANGED <<datasets, documents, nextId, calls, last>>

\* _hook_knowledge_dataset, lines 123-126: create, then resolve again
HookCreate(c) ==
    LET f == cl[c] IN
    /\ f.pc = "hook_create"
    /\ \/ /\ datasets' = ServerCreateDataset(f.op.db_name)
          /\ nextId' = nextId + 1
          /\ cl' = [cl EXCEPT ![c] =
                [f EXCEPT !.pc = "hook_list",
                          !.reqs = Append(f.reqs, Request("POST", "datasets", nextId, "ok"))]]
          /\ UNCHANGED faults
       \/ /\ CanFault
          /\ faults' = faults + 1
          /\ \/ cl' = [cl EXCEPT ![c] =
                   [f EXCEPT !.pc = "hook_list",
                             !.reqs = Append(f.reqs, Request("POST", "datasets", NoId, "error"))]]
             \/ cl' = [cl EXCEPT ![c] =
                   Raise(f, Request("POST", "datasets", NoId, "transport"), "TransportError")]
          /\ UNCHANGED <<datasets, nextId>>
    /\ UNCHANGED <<documents, calls, last>>

\* embed_knowledge line 197: _sync_document_id and the choice of the branch
SyncDocumentId(c) ==
    LET f == cl[c]
        table_name == f.op.table_to_knowledge[f.idx].table_name
    IN
    /\ f.pc = "sync"
    /\ \/ /\ LET document_id ==
                     FindDocument(ListDocumentsPage(f.dataset_id, table_name), table_name)
             IN  cl' = [cl EXCEPT ![c] =
                    [f EXCEPT !.document_id = document_id,
                              !.pc = WriteBranch(document_id, f.op.force_override),
                              !.reqs = Append(f.reqs,
                                  Request("GET", "documents", NoId, "ok"))]]
          /\ UNCHANGED faults
       \/ /\ CanFault
          /\ faults' = faults + 1
          /\ \/ cl' = [cl EXCEPT ![c] =
                   Raise(f, Request("GET", "documents", NoId, "error"), "KeyError")]
             \/ cl' = [cl EXCEPT ![c] =
                   Raise(f, Request("GET", "documents", NoId, "transport"), "TransportError")]
    /\ UNCHANGED <<datasets, documents, nextId, calls, last>>

\* _delete_document under force_override, line 199: raise_for_status propagates
DeleteDocument(c) ==
    LET f == cl[c]
        req(status) == Request("DELETE", "document", f.document_id, status)
    IN
    /\ f.pc = "delete"
    /\ \/ /\ ServerHasDocument(f.dataset_id, f.document_id)
          /\ documents' = ServerDeleteDocument(f.dataset_id, f.document_id)
          /\ cl' = [cl EXCEPT ![c] =
                [f EXCEPT !.pc = "create", !.reqs = Append(f.reqs, req("ok"))]]
          /\ UNCHANGED faults
       \/ /\ ~ServerHasDocument(f.dataset_id, f.document_id)
          /\ cl' = [cl EXCEPT ![c] = Raise(f, req("error"), "HTTPStatusError")]
          /\ UNCHANGED <<documents, faults>>
       \/ /\ CanFault
          /\ faults' = faults + 1
          /\ \/ cl' = [cl EXCEPT ![c] = Raise(f, req("error"), "HTTPStatusError")]
             \/ cl' = [cl EXCEPT ![c] = Raise(f, req("transport"), "TransportError")]
          /\ UNCHANGED documents
    /\ UNCHANGED <<datasets, nextId, calls, last>>

\* _create_document_by_text, lines 101-109, and line 211
CreateDocumentByText(c) ==
    LET f == cl[c]
        entry == f.op.table_to_knowledge[f.idx]
        payload == DocumentPreprocessPayload(entry.table_name, entry.knowledge_card)
        req(id, status) == Request("POST", "create_by_text", id, status)
    IN
    /\ f.pc = "create"
    /\ \/ /\ documents' = ServerCreateDocument(f.dataset_id, payload)
          /\ nextId' = nextId + 1
          /\ cl' = [cl EXCEPT ![c] =
                NextEntry([f EXCEPT !.reqs = Append(f.reqs, req(nextId, "ok"))],
                          UploadDocumentResponse(nextId))]
          /\ UNCHANGED faults
       \/ /\ CanFault
          /\ faults' = faults + 1
          /\ \/ cl' = [cl EXCEPT ![c] = Raise(f, req(NoId, "error"), "HTTPStatusError")]
             \/ cl' = [cl EXCEPT ![c] = Raise(f, req(NoId, "transport"), "TransportError")]
          /\ UNCHANGED <<documents, nextId>>
    /\ UNCHANGED <<datasets, calls, last>>

\* variant: the error status of the update is not caught
UpdateRejected_Raises(f, req) == Raise(f, req, "HTTPStatusError")

\* _update_document_by_text, lines 76-80: the error status is logged, None returned
UpdateRejected(f, req) ==
    NextEntry([f EXCEPT !.reqs = Append(f.reqs, req)], NoneResponse)

\* _update_document_by_text, lines 71-85, and line 211
UpdateDocumentByText(c) ==
    LET f == cl[c]
        entry == f.op.table_to_knowledge[f.idx]
        payload == DocumentPreprocessPayload(entry.table_name, entry.knowledge_card)
        req(status) == Request("POST", "update_by_text", f.document_id, status)
    IN
    /\ f.pc = "update"
    /\ \/ /\ ServerCanUpdate(f.dataset_id, f.document_id)
          /\ documents' = ServerUpdateDocument(f.dataset_id, f.document_id, payload)
          /\ cl' = [cl EXCEPT ![c] =
                NextEntry([f EXCEPT !.reqs = Append(f.reqs, req("ok"))],
                          UploadDocumentResponse(f.document_id))]
          /\ UNCHANGED faults
       \/ /\ ~ServerCanUpdate(f.dataset_id, f.document_id)
          /\ cl' = [cl EXCEPT ![c] = UpdateRejected(f, req("error"))]
          /\ UNCHANGED <<documents, faults>>
       \/ /\ CanFault
          /\ faults' = faults + 1
          /\ \/ cl' = [cl EXCEPT ![c] = UpdateRejected(f, req("error"))]
             \/ cl' = [cl EXCEPT ![c] = Raise(f, req("transport"), "TransportError")]
          /\ UNCHANGED documents
    /\ UNCHANGED <<datasets, nextId, calls, last>>

\* delete_all_document line 217: _list_documents without a keyword
ListDocuments(c) ==
    LET f == cl[c] IN
    /\ f.pc = "list"
    /\ \/ /\ LET docs == ListDocumentsPage(f.dataset_id, "")
             IN  cl' = [cl EXCEPT ![c] =
                    [f EXCEPT !.docs = docs, !.idx = 1,
                              !.pc = IF docs = <<>> THEN "done" ELSE "da_delete",
                              !.reqs = Append(f.reqs,
                                  Request("GET", "documents", NoId, "ok"))]]
          /\ UNCHANGED faults
       \/ /\ CanFault
          /\ faults' = faults + 1
          /\ \/ cl' = [cl EXCEPT ![c] =
                   Raise(f, Request("GET", "documents", NoId, "error"), "KeyError")]
             \/ cl' = [cl EXCEPT ![c] =
                   Raise(f, Request("GET", "documents", NoId, "transport"), "TransportError")]
    /\ UNCHANGED <<datasets, documents, nextId, calls, last>>

\* the next turn of the loop of delete_all_document
NextDoc(f, req) ==
    [f EXCEPT !.reqs = Append(f.reqs, req),
              !.idx = f.idx + 1,
              !.pc = IF f.idx + 1 > Len(f.docs) THEN "done" ELSE "da_delete"]

\* variant: the error status of a delete is not caught
DeleteFailed_Raises(f, req) == Raise(f, req, "HTTPStatusError")

\* delete_all_document lines 222-223: except httpx.HTTPStatusError
DeleteFailed(f, req) == NextDoc(f, req)

\* delete_all_document lines 218-223: one turn of the loop
DeleteAllStep(c) ==
    LET f == cl[c]
        doc == f.docs[f.idx]
        req(status) == Request("DELETE", "document", doc.id, status)
    IN
    /\ f.pc = "da_delete"
    /\ \/ /\ ServerHasDocument(f.dataset_id, doc.id)
          /\ documents' = ServerDeleteDocument(f.dataset_id, doc.id)
          /\ cl' = [cl EXCEPT ![c] = NextDoc(f, req("ok"))]
          /\ UNCHANGED faults
       \/ /\ ~ServerHasDocument(f.dataset_id, doc.id)
          /\ cl' = [cl EXCEPT ![c] = DeleteFailed(f, req("error"))]
          /\ UNCHANGED <<documents, faults>>
       \/ /\ CanFault
          /\ faults' = faults + 1
          /\ \/ cl' = [cl EXCEPT ![c] = DeleteFailed(f, req("error"))]
             \/ cl' = [cl EXCEPT ![c] = Raise(f, req("transport"), "TransportError")]
          /\ UNCHANGED documents
    /\ UNCHANGED <<datasets, nextId, calls, last>>

-----------------------------------------------------------------------------
(* One client, its calls one after another *)

Step(c) ==
    \/ Call(c)
    \/ CallAgain(c)
    \/ Return(c)
    \/ HookList(c)
    \/ HookCreate(c)
    \/ SyncDocumentId(c)
    \/ DeleteDocument(c)
    \/ CreateDocumentByText(c)
    \/ UpdateDocumentByText(c)
    \/ ListDocuments(c)
    \/ DeleteAllStep(c)

Next == Step(1)

Spec == Init /\ [][Next]_vars

-----------------------------------------------------------------------------
(* Construction: every process constructs its client, nothing else *)

InitNew ==
    /\ datasets = <<>>
    /\ documents = <<>>
    /\ nextId = 1
    /\ faults = 0
    /\ calls = [c \in Clients |-> 0]
    /\ cl = [c \in Clients |-> [IdleFrame EXCEPT !.init = NewClient]]
    /\ last = [c \in Clients |-> NoCall]

\* DifyFireDrop(separator, dify_base_url, api_key) in some environment
Construct(c) ==
    /\ cl[c].init.pc = "new"
    /\ \E separator \in Separators, dify_base_url \in BaseUrls,
          api_key \in ApiKeys, env \in EnvValues :
          cl' = [cl EXCEPT ![c].init =
                    DifyFireDrop(separator, dify_base_url, api_key, env)]
    /\ UNCHANGED <<datasets, documents, nextId, faults, calls, last>>

NextConstruct == \E c \in Clients : Construct(c)

SpecConstruct == InitNew /\ [][NextConstruct]_vars

-----------------------------------------------------------------------------
(* The indexing monitor: one process waits for an indexing job *)

\* the statuses an indexing job reports
IndexingStatuses == {"waiting", "indexing", "paused", "completed", "error"}

\* the statuses after which a job reports nothing new
TerminalStatuses == {"completed", "error"}

\* the answers of the indexing-status endpoint the progress bar can take
IndexingResponses(n) ==
    {r \in [total_segments : 0..MaxSegments, completed_segments : 0..MaxSegments,
            indexing_status : IndexingStatuses] :
        /\ r.completed_segments <= r.total_segments
        /\ n + r.completed_segments <= MaxProgress}

\* variant: only "completed" ends the loop
Terminal_CompletedOnly(status) == status = "completed"

\* line 163: status in ["error", "completed"]
Terminal(status) == status \in {"error", "completed"}

\* a dataset with two documents just written, their indexing under way
InitMonitor ==
    /\ datasets = <<[id |-> 1, name |-> "catalog"]>>
    /\ documents = <<[id |-> 3, dataset |-> 1, name |-> StoredName("ab"),
                      text |-> OldText, archived |-> FALSE],
                     [id |-> 2, dataset |-> 1, name |-> StoredName("a"),
                      text |-> OldText, archived |-> FALSE]>>
    /\ nextId = Len(datasets) + Len(documents) + 1
    /\ faults = 0
    /\ calls = [c \in Clients |-> 0]
    /\ cl = [c \in Clients |-> IdleFrame]
    /\ last = [c \in Clients |-> NoCall]

\* _sync_indexing_status(dataset_id, batch), lines 148-151
SyncIndexingStatus(c) ==
    /\ cl[c].pc = "idle"
    /\ calls[c] = 0
    /\ \E d \in Range(datasets), doc \in Range(documents) :
          cl' = [cl EXCEPT ![c] =
                    [IdleFrame EXCEPT !.pc = "mon_get", !.dataset_id = d.id,
                                      !.mon = [NoMonitor EXCEPT !.batch = doc.id]]]
    /\ calls' = [calls EXCEPT ![c] = 1]
    /\ UNCHANGED <<datasets, documents, nextId, faults, last>>

\* lines 154-160: one poll, the progress bar and the status
IndexingStatusGet(c) ==
    LET f == cl[c]
        seen == IF f.mon.status = "none" THEN f.mon.seen
                ELSE f.mon.seen \cup {f.mon.status}
    IN
    /\ f.pc = "mon_get"
    /\ \/ /\ \E r \in IndexingResponses(f.mon.n) :
                cl' = [cl EXCEPT ![c] =
                         [f EXCEPT !.pc = "mon_sleep",
                                   !.mon = [batch |-> f.mon.batch,
                                            status |-> r.indexing_status,
                                            seen |-> seen,
                                            total |-> r.total_segments,
                                            n |-> f.mon.n + r.completed_segments]]]
          /\ UNCHANGED faults
       \/ /\ CanFault
          /\ faults' = faults + 1
          /\ \/ cl' = [cl EXCEPT ![c] = [f EXCEPT !.pc = "raised", !.exc = "KeyError"]]
             \/ cl' = [cl EXCEPT ![c] = [f EXCEPT !.pc = "raised", !.exc = "TransportError"]]
    /\ UNCHANGED <<datasets, documents, nextId, calls, last>>

\* lines 161-164: sleep, then leave the loop on a terminal status
IndexingStatusSleep(c) ==
    LET f == cl[c] IN
    /\ f.pc = "mon_sleep"
    /\ cl' = [cl EXCEPT ![c] =
                 [f EXCEPT !.pc = IF Terminal(f.mon.status) THEN "done" ELSE "mon_get"]]
    /\ UNCHANGED <<datasets, documents, nextId, faults, calls, last>>

NextMonitor ==
    \/ SyncIndexingStatus(1)
    \/ IndexingStatusGet(1)
    \/ IndexingStatusSleep(1)

\* the process runs on: a poll that can be made is made, a sleep ends
SpecMonitor ==
    /\ InitMonitor
    /\ [][NextMonitor]_vars
    /\ WF_vars(IndexingStatusGet(1))
    /\ WF_vars(IndexingStatusSleep(1))

-----------------------------------------------------------------------------
(* Two processes reconcile the same logical name in the same dataset *)

\* the logical name both processes reconcile
SharedName == "a"

\* embed_knowledge({SharedName: text}, db_name="catalog", force_override=...)
ConcOps ==
    [kind : {"embed_knowledge"}, db_name : CallDbNames,
     table_to_knowledge : {<<[table_name |-> SharedName, knowledge_card |-> t]>> : t \in Texts},
     force_override : BOOLEAN]

\* another process is inside its call
MidCall(c) == cl[c].pc \notin {"idle", "done", "raised"}

\* the dataset may exist or not; it holds no document of the shared name
InitConc ==
    /\ datasets \in {<<>>, <<[id |-> 1, name |-> "catalog"]>>}
    /\ documents \in {<<>>} \cup
          {<<[id |-> 2, dataset |-> d.id, name |-> StoredName("ab"),
              text |-> OldText, archived |-> FALSE]>> : d \in Range(datasets)}
    /\ nextId = Len(datasets) + Len(documents) + 1
    /\ faults = 0
    /\ calls = [c \in Clients |-> 0]
    /\ cl = [c \in Clients |-> IdleFrame]
    /\ last = [c \in Clients |-> NoCall]

\* a process starts its one call, whatever the other process is doing
CallEmbed(c) ==
    /\ cl[c].pc = "idle"
    /\ calls[c] = 0
    /\ \E op \in ConcOps :
          cl' = [cl EXCEPT ![c] =
                    [IdleFrame EXCEPT !.op = op, !.pc = Enter(op), !.pre = Remote,
                                      !.overlap = \E o \in Clients \ {c} : MidCall(o)]]
    /\ calls' = [calls EXCEPT ![c] = 1]
    /\ UNCHANGED <<datasets, documents, nextId, faults, last>>

\* the requests of the two processes interleave freely
NextConc ==
    \E c \in Clients :
        \/ CallEmbed(c)
        \/ HookList(c)
        \/ HookCreate(c)
        \/ SyncDocumentId(c)
        \/ DeleteDocument(c)
        \/ CreateDocumentByText(c)
        \/ UpdateDocumentByText(c)

SpecConc == InitConc /\ [][NextConc]_vars

TypeOK ==
    /\ faults \in 0..MaxFaults
    /\ \A c \in Clients : calls[c] \in 0..MaxCalls
    /\ \A c \in Clients :
          cl[c].pc \in {"idle", "hook_list", "hook_create", "sync", "delete",
                        "create", "update", "list", "da_delete", "done", "raised",
                        "mon_get", "mon_sleep"}

-----------------------------------------------------------------------------
(* Properties *)

\* the documents of a dataset that carry a stored name
DocsNamed(docs, dataset_id, name) ==
    {d \in Range(docs) : d.dataset = dataset_id /\ d.name = name}

DatasetsNamed(dss, name) == {d \in Range(dss) : d.name = name}

Ids(s) == {x.id : x \in Range(s)}

\* the positions of the requests of a call that are of one kind
ReqsAt(reqs, method, target) ==
    {i \in 1..Len(reqs) : reqs[i].method = method /\ reqs[i].target = target}

\* a finished embed_knowledge call of client 1 with a one-entry mapping
OneEntryDone ==
    /\ cl[1].pc = "done"
    /\ cl[1].op.kind = "embed_knowledge"
    /\ Len(cl[1].op.table_to_knowledge) = 1

\* C1: after one reconcile of a name for which the resolved dataset held no
\* document, the dataset holds exactly one document named name + ".txt" whose
\* content is the supplied text; and if no dataset was named db_name, exactly
\* one such dataset was created, before the document.
C1_CreatesExactlyOne ==
    LET f == cl[1]
        e == f.op.table_to_knowledge[1]
        stored == e.table_name \o ".txt"
    IN
    (OneEntryDone /\ DocsNamed(f.pre.documents, f.dataset_id, stored) = {})
    =>
    /\ Cardinality(DocsNamed(documents, f.dataset_id, stored)) = 1
    /\ \A d \in DocsNamed(documents, f.dataset_id, stored) : d.text = e.knowledge_card
    /\ DatasetsNamed(f.pre.datasets, f.op.db_name) = {}
       =>
       /\ Cardinality(DatasetsNamed(datasets, f.op.db_name)) = 1
       /\ Tail(datasets) = f.pre.datasets
       /\ \A i \in ReqsAt(f.reqs, "POST", "datasets") :
             \A j \in ReqsAt(f.reqs, "POST", "create_by_text") : i < j

C1_Witness ==
    /\ OneEntryDone
    /\ DatasetsNamed(cl[1].pre.datasets, cl[1].op.db_name) = {}
    /\ cl[1].pre.datasets # <<>>
    /\ Cardinality(DocsNamed(documents, cl[1].dataset_id, "ab.txt")) = 1
    /\ \E d \in Range(documents) : d.name = "ab.txt" /\ d.text = "t1"

\* C7: embed_knowledge with an empty mapping issues no request, leaves the
\* remote state as it was, and returns normally.
C7_EmptyMappingNoRequest ==
    LET f == cl[1] IN
    (f.op.kind = "embed_knowledge" /\ f.op.table_to_knowledge = <<>>)
    =>
    /\ f.pc = "done"
    /\ f.reqs = <<>>
    /\ Remote = f.pre

C7_Witness ==
    /\ cl[1].op.kind = "embed_knowledge"
    /\ cl[1].op.table_to_knowledge = <<>>
    /\ cl[1].pc = "done"
    /\ DatasetsNamed(datasets, cl[1].op.db_name) = {}
    /\ calls[1] = 2

\* C2 (as claimed): when the resolved dataset already held a document named
\* name + ".txt", reconcile with force_override = false issues an update on
\* such a document, issues no create, and leaves the number of documents of
\* that name as it was.
C2_UpdateNoCreate ==
    LET f == cl[1]
        stored == f.op.table_to_knowledge[1].table_name \o ".txt"
        before == DocsNamed(f.pre.documents, f.dataset_id, stored)
    IN
    (OneEntryDone /\ ~f.op.force_override /\ before # {})
    =>
    /\ ReqsAt(f.reqs, "POST", "create_by_text") = {}
    /\ \E i \in ReqsAt(f.reqs, "POST", "update_by_text") :
          f.reqs[i].id \in {d.id : d \in before}
    /\ Cardinality(DocsNamed(documents, f.dataset_id, stored)) = Cardinality(before)

\* both calls of client 1 finished normally, the same one-entry reconcile
\* with force_override = false, and no update was rejected
TwiceDone ==
    /\ calls[1] = 2
    /\ OneEntryDone
    /\ ~cl[1].op.force_override
    /\ last[1].pc = "done"
    /\ NoneResponse \notin Range(last[1].response_seq)
    /\ NoneResponse \notin Range(cl[1].response_seq)

\* C3 (as claimed): two reconciles in succession of the same name and text,
\* force_override = false, from a dataset holding at most one document of
\* that name, leave exactly one document of that name, whose content is the
\* text; the second call creates nothing.
C3_Idempotent ==
    LET f == cl[1]
        e == f.op.table_to_knowledge[1]
        stored == e.table_name \o ".txt"
    IN
    (TwiceDone
       /\ Cardinality(DocsNamed(last[1].pre.documents, f.dataset_id, stored)) <= 1)
    =>
    /\ Cardinality(DocsNamed(documents, f.dataset_id, stored)) = 1
    /\ \A d \in DocsNamed(documents, f.dataset_id, stored) : d.text = e.knowledge_card
    /\ ReqsAt(f.reqs, "POST", "create_by_text") = {}

\* C4 (as claimed): when the resolved dataset already held documents named
\* name + ".txt", reconcile with force_override = true removes an old
\* identifier and leaves a document of that name with a new identifier.
C4_ForceNewIdentifier ==
    LET f == cl[1]
        stored == f.op.table_to_knowledge[1].table_name \o ".txt"
        before == DocsNamed(f.pre.documents, f.dataset_id, stored)
    IN
    (OneEntryDone /\ f.op.force_override /\ before # {})
    =>
    /\ \E d \in before : d.id \notin Ids(documents)
    /\ \E d \in DocsNamed(documents, f.dataset_id, stored) :
          d.id \notin Ids(f.pre.documents)

\* the last request of the call in progress
LastReq(f) == f.reqs[Len(f.reqs)]

\* C5 (as claimed): in a batch, a write (create, update, delete) answered
\* with an error status does not end the call while entries remain.
C5_FailureDoesNotAbort ==
    LET f == cl[1] IN
    (/\ f.op.kind = "embed_knowledge"
     /\ f.reqs # <<>>
     /\ LastReq(f).target \in {"create_by_text", "update_by_text", "document"}
     /\ LastReq(f).status = "error"
     /\ f.idx < Len(f.op.table_to_knowledge))
    => f.pc # "raised"

\* client 1 is about to send an update for a document that is archived
UpdatingArchived ==
    /\ cl[1].pc = "update"
    /\ \E d \in Range(documents) : d.id = cl[1].document_id /\ d.archived

\* the step is the answer, with an error status, to the update of client 1
UpdateAnsweredError ==
    /\ Len(cl'[1].reqs) = Len(cl[1].reqs) + 1
    /\ LastReq(cl'[1]).target = "update_by_text"
    /\ LastReq(cl'[1]).status = "error"

\* C6: an update of an archived document that is answered with an error
\* status raises nothing, leaves the documents as they were, appends None to
\* the results and goes on to the next entry of the mapping (or ends the call
\* normally after the last one).
C6_ArchivedUpdateSkipped ==
    [][(UpdatingArchived /\ UpdateAnsweredError) =>
          /\ documents' = documents
          /\ cl'[1].pc = IF cl[1].idx < Len(cl[1].op.table_to_knowledge)
                         THEN "sync" ELSE "done"
          /\ cl'[1].exc = "none"
          /\ cl'[1].idx = cl[1].idx + 1
          /\ cl'[1].response_seq = Append(cl[1].response_seq, NoneResponse)]_vars

C6_Witness ==
    /\ cl[1].pc = "sync"
    /\ cl[1].idx = 2
    /\ cl[1].response_seq = <<NoneResponse>>
    /\ LastReq(cl[1]).target = "update_by_text"
    /\ \E d \in Range(documents) : d.id = LastReq(cl[1]).id /\ d.archived
    /\ faults = 0

\* a finished delete_all_document call of client 1
DeleteAllDone ==
    /\ cl[1].pc = "done"
    /\ cl[1].op.kind = "delete_all_document"

\* C8 (as claimed): delete_all_document leaves no document in the dataset
\* when every delete it issued succeeded.
C8_DeletesAll ==
    (DeleteAllDone
       /\ \A i \in ReqsAt(cl[1].reqs, "DELETE", "document") : cl[1].reqs[i].status = "ok")
    => DocsOf(cl[1].dataset_id) = <<>>

\* C9 (as claimed): a failed delete, by error status or in transport, does
\* not end delete_all_document with an exception.
C9_DeleteFailureNeverRaises ==
    (/\ cl[1].op.kind = "delete_all_document"
     /\ cl[1].reqs # <<>>
     /\ LastReq(cl[1]).method = "DELETE")
    => cl[1].pc # "raised"

\* C9 (amended): a delete answered with an error status does not end the
\* call: a finished call has issued one delete per listed document, in
\* listing order, and has removed exactly the documents whose delete
\* succeeded; only a transport failure ends the call with an exception.
C9_StatusFailureContinues ==
    LET f == cl[1]
        dels == SelectSeq(f.reqs, LAMBDA r : r.method = "DELETE")
        okIds == {r.id : r \in {x \in Range(dels) : x.status = "ok"}}
    IN
    (f.op.kind = "delete_all_document")
    =>
    /\ (f.pc = "raised" /\ f.reqs # <<>> /\ LastReq(f).method = "DELETE")
          => LastReq(f).status = "transport"
    /\ f.pc = "done"
          =>
          /\ Len(dels) = Len(f.docs)
          /\ \A i \in 1..Len(dels) : dels[i].id = f.docs[i].id
          /\ Ids(f.pre.documents) \ Ids(documents) = okIds
          /\ Cardinality(okIds) =
                Len(f.docs) - Cardinality({i \in 1..Len(dels) : dels[i].status = "error"})

C9_Witness ==
    /\ DeleteAllDone
    /\ Len(cl[1].reqs) >= 2
    /\ LastReq(cl[1]).method = "DELETE"
    /\ LastReq(cl[1]).status = "ok"
    /\ cl[1].reqs[Len(cl[1].reqs) - 1].method = "DELETE"
    /\ cl[1].reqs[Len(cl[1].reqs) - 1].status = "error"

\* both calls of client 1 were _hook_knowledge_dataset and returned
ResolvedTwice ==
    /\ calls[1] = 2
    /\ cl[1].pc = "done"
    /\ cl[1].op.kind = "_hook_knowledge_dataset"
    /\ last[1].pc = "done"

\* C10: resolving the same name twice in succession returns the same
\* identifier both times, and the second call creates no dataset.
C10_ResolveTwiceSame ==
    ResolvedTwice
    =>
    /\ cl[1].ret = last[1].ret
    /\ cl[1].ret # NoId
    /\ ReqsAt(cl[1].reqs, "POST", "datasets") = {}

C10_Witness ==
    /\ ResolvedTwice
    /\ \E i \in ReqsAt(last[1].reqs, "POST", "datasets") : last[1].reqs[i].status = "ok"
    /\ Len(datasets) > DatasetPageLimit

\* C11 (as claimed): construction ends the process exactly when neither the
\* api_key argument nor the environment variable gives a non-empty key; in
\* particular a non-empty api_key argument always constructs.
C11_ExitIffNoKey ==
    \A c \in Clients :
        cl[c].init.pc # "new"
        => (cl[c].init.pc = "exited"
               <=> (cl[c].init.api_key \in {None, ""}
                      /\ cl[c].init.env \in {Unset, ""}))

\* C12 (as claimed): one call resolves its dataset with at most one
\* create-dataset request and at most two listings of the datasets.
C12_ResolveBounded ==
    /\ Cardinality(ReqsAt(cl[1].reqs, "POST", "datasets")) <= 1
    /\ Cardinality(ReqsAt(cl[1].reqs, "GET", "datasets")) <= 2

\* C13 (as claimed): an error status answering the listing or the creation
\* of datasets ends the call with an exception, and no request follows it.
C13_ServerErrorPropagates ==
    \A i \in 1..Len(cl[1].reqs) :
        (cl[1].reqs[i].target = "datasets" /\ cl[1].reqs[i].status = "error")
        => (i = Len(cl[1].reqs) /\ cl[1].pc = "raised")

\* the locator of client 1 has just returned
Located ==
    /\ cl[1].pc \in {"delete", "update", "create"}
    /\ cl[1].reqs # <<>>
    /\ LastReq(cl[1]).target = "documents"

\* C15 (as claimed): the locator returns the identifier of the first
\* document of the dataset, in listing order, whose stored name is
\* name + ".txt", and None exactly when the dataset holds no such document.
C15_LocatorExact ==
    LET f == cl[1]
        stored == f.op.table_to_knowledge[f.idx].table_name \o ".txt"
        hits == {i \in 1..Len(documents) :
                    documents[i].dataset = f.dataset_id /\ documents[i].name = stored}
    IN
    Located
    =>
    /\ LastReq(f).method = "GET"
    /\ hits = {} => f.document_id = NoId
    /\ hits # {} =>
          \E i \in hits : /\ f.document_id = documents[i].id
                          /\ \A j \in hits : i <= j

\* client 1 is in embed_knowledge with force_override
ForceCall ==
    /\ cl[1].op.kind = "embed_knowledge"
    /\ cl[1].op.force_override

\* about to create for a located document: its delete was the request before
DeleteBeforeCreate ==
    (ForceCall /\ cl[1].pc = "create" /\ cl[1].document_id # NoId)
    => /\ LastReq(cl[1]).method = "DELETE"
       /\ LastReq(cl[1]).id = cl[1].document_id
       /\ LastReq(cl[1]).status = "ok"

\* a failed delete ends the call, and the document is still stored
DeleteFailedStops ==
    (ForceCall /\ cl[1].reqs # <<>> /\ LastReq(cl[1]).method = "DELETE"
              /\ LastReq(cl[1]).status # "ok")
    => /\ cl[1].pc = "raised"
       /\ LastReq(cl[1]).id \in Ids(documents)

\* the delete succeeded and the create that followed it failed
CreateFailedAfterDelete ==
    /\ ForceCall
    /\ Len(cl[1].reqs) >= 2
    /\ LastReq(cl[1]).target = "create_by_text"
    /\ LastReq(cl[1]).status # "ok"
    /\ cl[1].reqs[Len(cl[1].reqs) - 1].method = "DELETE"
    /\ cl[1].reqs[Len(cl[1].reqs) - 1].status = "ok"

\* C17 (as claimed): under force_override the delete of a located document
\* comes before its create; a failed delete stops the call and leaves the
\* document; a failed create after the delete leaves the dataset with no
\* document of that stored name.
C17_ForceOrderedNotAtomic ==
    LET f == cl[1]
        stored == f.op.table_to_knowledge[f.idx].table_name \o Suffix
    IN
    /\ DeleteBeforeCreate
    /\ DeleteFailedStops
    /\ CreateFailedAfterDelete
          => /\ f.pc = "raised"
             /\ DocsNamed(documents, f.dataset_id, stored) = {}

\* C17 (amended): as above, except that a failed create after the delete
\* leaves the dataset without the deleted document only: the documents of
\* that stored name are those it held before the call other than the deleted
\* one, so none is left exactly when the located document was the only one.
C17_ForceDeletesOnlyLocated ==
    LET f == cl[1]
        stored == f.op.table_to_knowledge[f.idx].table_name \o Suffix
        deleted == f.reqs[Len(f.reqs) - 1].id
    IN
    /\ DeleteBeforeCreate
    /\ DeleteFailedStops
    /\ CreateFailedAfterDelete
          => /\ f.pc = "raised"
             /\ deleted = f.document_id
             /\ deleted \notin Ids(documents)
             /\ DocsNamed(documents, f.dataset_id, stored)
                   = {d \in DocsNamed(f.pre.documents, f.dataset_id, stored) :
                         d.id # deleted}

C17_Witness ==
    /\ CreateFailedAfterDelete
    /\ cl[1].pc = "raised"
    /\ DocsNamed(cl[1].pre.documents, cl[1].dataset_id,
                 cl[1].op.table_to_knowledge[cl[1].idx].table_name \o Suffix) # {}
    /\ DocsNamed(documents, cl[1].dataset_id,
                 cl[1].op.table_to_knowledge[cl[1].idx].table_name \o Suffix) = {}

\* an embed_knowledge operation without force_override
NoForce(op) == op.kind = "embed_knowledge" /\ ~op.force_override

\* the positions of the create and update requests of a call
Writes(reqs) ==
    ReqsAt(reqs, "POST", "create_by_text") \cup ReqsAt(reqs, "POST", "update_by_text")

\* C18: embed_knowledge with force_override=false issues no delete request
\* and at most one write per entry of the mapping (a locate lies between any
\* two writes, and there are no more writes than entries taken up); over the
\* calls made so far no document identifier has left the remote state.
C18_NoForceNeverShrinks ==
    LET f == cl[1] IN
    /\ NoForce(f.op) =>
          /\ ReqsAt(f.reqs, "DELETE", "document") = {}
          /\ \A i, j \in Writes(f.reqs) :
                i < j => \E k \in ReqsAt(f.reqs, "GET", "documents") : i < k /\ k < j
          /\ Cardinality(Writes(f.reqs)) <= Cardinality(ReqsAt(f.reqs, "GET", "documents"))
          /\ Cardinality(Writes(f.reqs)) <= Len(f.op.table_to_knowledge)
          /\ Ids(f.pre.documents) \subseteq Ids(documents)
    /\ NoForce(last[1].op) =>
          /\ ReqsAt(last[1].reqs, "DELETE", "document") = {}
          /\ Ids(last[1].pre.documents) \subseteq Ids(last[1].post.documents)
          /\ Ids(last[1].post.documents) \subseteq Ids(documents)

\* the second of two such calls on a two-entry mapping has finished: the
\* first created a document, the second updated one
C18_Witness ==
    /\ cl[1].pc = "done"
    /\ NoForce(cl[1].op)
    /\ calls[1] = 2
    /\ Len(cl[1].op.table_to_knowledge) = 2
    /\ ReqsAt(last[1].reqs, "POST", "create_by_text") # {}
    /\ ReqsAt(cl[1].reqs, "POST", "update_by_text") # {}
    /\ Ids(last[1].pre.documents) # Ids(documents)

\* a poll of client 1 has been answered with a terminal status
TerminalReported ==
    cl[1].mon.status \in TerminalStatuses \/ cl[1].mon.seen \cap TerminalStatuses # {}

\* a poll of client 1 has failed
PollFailed == cl[1].pc = "raised"

\* C14: the monitor returns only after a poll, and only on a terminal status;
\* no poll follows a poll answered "completed" or "error"; after any other
\* status it polls again. So it returns if and only if some poll is answered
\* with a terminal status, and when none ever is (and no poll fails) it polls
\* again and again for ever.
C14_MonitorPolls ==
    /\ [](cl[1].pc = "done" => cl[1].mon.status \in TerminalStatuses)
    /\ [](cl[1].mon.seen \cap TerminalStatuses = {})
    /\ [](cl[1].pc = "mon_get" => cl[1].mon.status \notin TerminalStatuses)
    /\ [][IndexingStatusGet(1) => cl[1].mon.status \notin TerminalStatuses]_vars
    /\ (cl[1].pc = "mon_sleep" /\ cl[1].mon.status \notin TerminalStatuses)
          ~> (cl[1].pc = "mon_get")
    /\ <>TerminalReported => <>(cl[1].pc = "done")
    /\ <>(cl[1].pc = "done") => <>TerminalReported
    /\ ([]~TerminalReported /\ []~PollFailed /\ <>(cl[1].pc = "mon_get"))
          => []<><<IndexingStatusGet(1)>>_vars

\* the monitor has returned on "completed" after polls answered otherwise
C14_Witness ==
    /\ cl[1].pc = "done"
    /\ cl[1].mon.status = "completed"
    /\ {"waiting", "indexing"} \subseteq cl[1].mon.seen

\* the documents of one dataset that carry the shared stored name
SharedDocs(dataset_id) == DocsNamed(documents, dataset_id, SharedName \o Suffix)

\* no call was started while another was running
OneAfterAnother == \A c \in Clients : ~cl[c].overlap

\* C16: when the calls of the two processes run one after another, no
\* dataset ever holds two documents of the shared stored name. (That this
\* fails for calls that overlap is the reachable state C16_Witness.)
C16_SequentialAtMostOne ==
    OneAfterAnother
    => \A d \in Range(datasets) : Cardinality(SharedDocs(d.id)) <= 1

\* both processes located "absent" and both created: two documents of the
\* same stored name in one dataset
C16_Witness ==
    /\ \A c \in Clients :
          /\ cl[c].pc = "done"
          /\ ~cl[c].op.force_override
          /\ ReqsAt(cl[c].reqs, "POST", "create_by_text") # {}
          /\ cl[c].reqs[Len(cl[c].reqs)].status = "ok"
    /\ cl[1].dataset_id = cl[2].dataset_id
    /\ Cardinality(SharedDocs(cl[1].dataset_id)) = 2
    /\ \E c \in Clients : cl[c].overlap

====
